---- MODULE Spec2Model ----
(***************************************************************************)
(* Model of the chunking-and-reassembly pipeline of AudioGenerator         *)
(* (src/src/services/audioGenerator.ts): the text segmenter                *)
(* splitTextIntoChunks, the per-segment synthesis generateAudio, the       *)
(* ffmpeg merge concatenateAudioFiles and the orchestrating                *)
(* generateChapterAudioWithChunking.                                       *)
(*                                                                         *)
(* Strings are sequences of one-character strings, so that length, split,  *)
(* trim and concatenation are computed the way the JavaScript code         *)
(* computes them.                                                          *)
(***************************************************************************)
EXTENDS Integers, Sequences, FiniteSets, TLC

\* ---------------------------------------------------------------- bounds

\* MAX_CHARS_PER_REQUEST is 4500 in audioGenerator.ts:31; the model scales the
\* ceiling down so that texts around and above it can be enumerated.
MAX_CHARS_PER_REQUEST == 3

\* Longest input text handed to the segmenter in SegSpec.
MaxTextLen == 7

\* Number of builds (calls of generateChapterAudioWithChunking) in one run.
MaxBuilds == 2

\* The 100 of `.substring(0, 100)` in createCleanFileName, scaled down.
MaxFileNameLen == 3

\* Longest chapter title given to createCleanFileName.
MaxTitleLen == 5

\* Most chapters a fetched document has.
MaxChapters == 2

\* ------------------------------------------------------------ characters

\* The characters texts are made of: a letter, a sentence end, a blank and a
\* newline. They cover every character class the segmenter distinguishes.
Chars == {"a", ".", " ", "\n"}

\* \s of the regular expressions, restricted to Chars.
Whitespace == {" ", "\n"}

\* [.!?] of the sentence regular expression.
SentenceEnd == {".", "!", "?"}

\* All texts of length at most n.
TextsUpTo(n) == UNION {[1..k -> Chars] : k \in 0..n}

\* ------------------------------------------------- JavaScript string ops

\* First index >= i of s whose character is not in S (Len(s)+1 if none):
\* the end of a greedy run matched by \n+ or \s+.
RECURSIVE SkipRun(_, _, _)
SkipRun(s, i, S) ==
    IF i <= Len(s) /\ s[i] \in S THEN SkipRun(s, i + 1, S) ELSE i

\* Last index <= i of s whose character is not in S (0 if none).
RECURSIVE SkipRunBack(_, _, _)
SkipRunBack(s, i, S) ==
    IF i >= 1 /\ s[i] \in S THEN SkipRunBack(s, i - 1, S) ELSE i

\* String.prototype.trim
Trim(s) == SubSeq(s, SkipRun(s, 1, Whitespace), SkipRunBack(s, Len(s), Whitespace))

\* text.split(/\n\n+/): the pieces between maximal runs of two or more
\* newlines; a run at the start or the end yields an empty piece.
RECURSIVE SplitParaFrom(_, _, _)
SplitParaFrom(s, i, cur) ==
    IF i > Len(s) THEN <<cur>>
    ELSE IF s[i] = "\n" /\ i < Len(s) /\ s[i + 1] = "\n"
         THEN <<cur>> \o SplitParaFrom(s, SkipRun(s, i, {"\n"}), <<>>)
         ELSE SplitParaFrom(s, i + 1, Append(cur, s[i]))

SplitParagraphs(s) == SplitParaFrom(s, 1, <<>>)

\* The pieces of s between its whitespace runs, whatever precedes them.
RECURSIVE SplitWordsFrom(_, _, _)
SplitWordsFrom(s, i, cur) ==
    IF i > Len(s) THEN <<cur>>
    ELSE IF s[i] \in Whitespace
         THEN <<cur>> \o SplitWordsFrom(s, SkipRun(s, i, Whitespace), <<>>)
         ELSE SplitWordsFrom(s, i + 1, Append(cur, s[i]))

\* paragraph.split(/(?<=[.!?])\s+/): the pieces between whitespace runs that
\* directly follow '.', '!' or '?'; the punctuation stays with its piece.
RECURSIVE SplitSentFrom(_, _, _)
SplitSentFrom(s, i, cur) ==
    IF i > Len(s) THEN <<cur>>
    ELSE IF i > 1 /\ s[i - 1] \in SentenceEnd /\ s[i] \in Whitespace
         THEN <<cur>> \o SplitSentFrom(s, SkipRun(s, i, Whitespace), <<>>)
         ELSE SplitSentFrom(s, i + 1, Append(cur, s[i]))

\* A split at every whitespace run: paragraph.split(/\s+/).
SplitWords(s) == SplitWordsFrom(s, 1, <<>>)

SplitSentences(s) == SplitSentFrom(s, 1, <<>>)

\* The elements of a sequence (Array as a set).
Range(f) == {f[i] : i \in DOMAIN f}

\* The concatenation of a sequence of sequences.
RECURSIVE Flatten(_)
Flatten(ss) == IF ss = <<>> THEN <<>> ELSE Head(ss) \o Flatten(Tail(ss))

\* ---------------------------------------------------------- the segmenter

\* The loop state of splitTextIntoChunks: chunks and currentChunk.
ChunkState(chunks, currentChunk) == [chunks |-> chunks, cur |-> currentChunk]

\* One iteration of the sentence loop, without the "+ 1" for the joining blank.
SentenceStepNoJoinChar(st, sentence) ==
    IF Len(st.cur) + Len(sentence) > MAX_CHARS_PER_REQUEST
    THEN ChunkState(IF st.cur # <<>> THEN Append(st.chunks, Trim(st.cur))
                                     ELSE st.chunks,
                    sentence)
    ELSE ChunkState(st.chunks,
                    st.cur \o (IF st.cur # <<>> THEN <<" ">> ELSE <<>>) \o sentence)

\* One iteration of the sentence loop (lines 223-232).
SentenceStep(st, sentence) ==
    IF Len(st.cur) + Len(sentence) + 1 > MAX_CHARS_PER_REQUEST
    THEN ChunkState(IF st.cur # <<>> THEN Append(st.chunks, Trim(st.cur))
                                     ELSE st.chunks,
                    sentence)
    ELSE ChunkState(st.chunks,
                    st.cur \o (IF st.cur # <<>> THEN <<" ">> ELSE <<>>) \o sentence)

RECURSIVE FoldSentences(_, _, _)
FoldSentences(st, sentences, k) ==
    IF k > Len(sentences) THEN st
    ELSE FoldSentences(SentenceStep(st, sentences[k]), sentences, k + 1)

\* The flush of lines 216-219, before an oversized paragraph is split.
FlushCurrent(st) ==
    IF st.cur # <<>> THEN ChunkState(Append(st.chunks, Trim(st.cur)), <<>>)
                     ELSE st

\* The paragraph branch of lines 237-244 with the push of line 240 left out.
AppendParagraphNoPush(st, paragraph) ==
    LET potentialChunk ==
            st.cur \o (IF st.cur # <<>> THEN <<"\n", "\n">> ELSE <<>>) \o paragraph
    IN  IF Len(potentialChunk) > MAX_CHARS_PER_REQUEST
        THEN ChunkState(st.chunks, paragraph)
        ELSE ChunkState(st.chunks, potentialChunk)

\* The paragraph branch of lines 237-244: a paragraph that fits the ceiling.
AppendParagraph(st, paragraph) ==
    LET potentialChunk ==
            st.cur \o (IF st.cur # <<>> THEN <<"\n", "\n">> ELSE <<>>) \o paragraph
    IN  IF Len(potentialChunk) > MAX_CHARS_PER_REQUEST
        THEN ChunkState(Append(st.chunks, Trim(st.cur)), paragraph)
        ELSE ChunkState(st.chunks, potentialChunk)

\* A paragraph loop that cuts an oversized paragraph at the ceiling instead
\* of splitting it by sentences.
ParagraphStepTruncated(st, paragraph) ==
    AppendParagraph(st, IF Len(paragraph) > MAX_CHARS_PER_REQUEST
                        THEN SubSeq(paragraph, 1, MAX_CHARS_PER_REQUEST)
                        ELSE paragraph)

\* One iteration of the paragraph loop (lines 212-245).
ParagraphStep(st, paragraph) ==
    IF Len(paragraph) > MAX_CHARS_PER_REQUEST
    THEN FoldSentences(FlushCurrent(st), SplitSentences(paragraph), 1)
    ELSE AppendParagraph(st, paragraph)

RECURSIVE FoldParagraphs(_, _, _)
FoldParagraphs(st, paragraphs, k) ==
    IF k > Len(paragraphs) THEN st
    ELSE FoldParagraphs(ParagraphStep(st, paragraphs[k]), paragraphs, k + 1)

\* A return that forgets what is still in currentChunk.
FinalFlushDropped(st) == st.chunks

\* The last push of lines 248-250 and the return of line 252.
FinalFlush(st) ==
    IF st.cur # <<>> THEN Append(st.chunks, Trim(st.cur)) ELSE st.chunks

\* A segmenter without the short circuit of lines 204-206.
splitTextIntoChunksNoShortCircuit(text) ==
    FinalFlush(FoldParagraphs(ChunkState(<<>>, <<>>), SplitParagraphs(text), 1))

\* AudioGenerator.splitTextIntoChunks (lines 203-253).
splitTextIntoChunks(text) ==
    IF Len(text) <= MAX_CHARS_PER_REQUEST THEN <<text>>
    ELSE FinalFlush(FoldParagraphs(ChunkState(<<>>, <<>>), SplitParagraphs(text), 1))

\* -------------------------------------------------- createCleanFileName

\* Characters of a chapter title: a lower-case letter, an upper-case letter, a
\* digit, a blank, a hyphen and a special character.
TitleChars == {"a", "B", "1", " ", "-", "!"}

TitlesUpTo(n) == UNION {[1..k -> TitleChars] : k \in 0..n}

\* String.prototype.toLowerCase on the title alphabet.
ToLowerCase(s) == [i \in DOMAIN s |-> IF s[i] = "B" THEN "b" ELSE s[i]]

\* The characters [a-z0-9\s-] of the first replace.
FileNameSafe == {"a", "b", "1", "-"} \cup Whitespace

\* .replace(/[^a-z0-9\s-]/g, '').
RemoveSpecial(s) == SelectSeq(s, LAMBDA c : c \in FileNameSafe)

\* .replace(/X+/g, '-') for a character class X: every maximal run of
\* characters of X becomes one hyphen.
RECURSIVE RunsToHyphen(_, _, _)
RunsToHyphen(s, X, i) ==
    IF i > Len(s) THEN <<>>
    ELSE IF s[i] \in X THEN <<"-">> \o RunsToHyphen(s, X, SkipRun(s, i, X))
    ELSE <<s[i]>> \o RunsToHyphen(s, X, i + 1)

\* .replace(/^-|-$/g, ''): one hyphen at the start and one at the end.
StripEdgeHyphens(s) ==
    LET t == IF s # <<>> /\ s[1] = "-" THEN Tail(s) ELSE s
    IN  IF t # <<>> /\ t[Len(t)] = "-" THEN SubSeq(t, 1, Len(t) - 1) ELSE t

\* .substring(0, n).
Substring0(s, n) == IF Len(s) <= n THEN s ELSE SubSeq(s, 1, n)

\* AudioGenerator.createCleanFileName (audioGenerator.ts lines 156-164).
createCleanFileName(title) ==
    Substring0(StripEdgeHyphens(
                   RunsToHyphen(RunsToHyphen(RemoveSpecial(ToLowerCase(title)),
                                             Whitespace, 1), {"-"}, 1)),
               MaxFileNameLen)

\* DocumentProcessor.createCleanFileName (fileManager.ts lines 520-528).
DocumentProcessor_createCleanFileName(title) ==
    Substring0(StripEdgeHyphens(
                   RunsToHyphen(RunsToHyphen(RemoveSpecial(ToLowerCase(title)),
                                             Whitespace, 1), {"-"}, 1)),
               MaxFileNameLen)

\* A copy that does not lower-case the title.
BookController_createCleanFileNameAsTyped(title) ==
    Substring0(StripEdgeHyphens(
                   RunsToHyphen(RunsToHyphen(RemoveSpecial(title),
                                             Whitespace, 1), {"-"}, 1)),
               MaxFileNameLen)

\* BookController.createCleanFileName (bookController.ts lines 535-543).
BookController_createCleanFileName(title) ==
    Substring0(StripEdgeHyphens(
                   RunsToHyphen(RunsToHyphen(RemoveSpecial(ToLowerCase(title)),
                                             Whitespace, 1), {"-"}, 1)),
               MaxFileNameLen)

\* ------------------------------------------------------- the build: state

\* The calls of generateChapterAudioWithChunking of one run, in start order.
Builds == 1..MaxBuilds

\* Results of createCleanFileName(chapterTitle) the builds work on.
BaseNames == {"ch1", "ch2"}

Word(n) == [i \in 1..n |-> "a"]

ParagraphBreak == <<"\n", "\n">>

\* Results of cleanContentForTTS (trimmed, not empty) handed to the builds:
\* a text exactly at the ceiling (Direct), one oversized sentence (one chunk),
\* two sentences in one oversized paragraph (two chunks), three paragraphs
\* (three chunks), and two paragraphs around a whitespace-only one.
BuildTexts ==
    { Word(MAX_CHARS_PER_REQUEST),
      Word(MAX_CHARS_PER_REQUEST + 1),
      Word(MAX_CHARS_PER_REQUEST - 1) \o <<".", " ">> \o Word(1) \o <<".">>,
      Word(MAX_CHARS_PER_REQUEST) \o ParagraphBreak \o Word(MAX_CHARS_PER_REQUEST)
          \o ParagraphBreak \o Word(1),
      Word(MAX_CHARS_PER_REQUEST) \o ParagraphBreak \o <<" ">> \o ParagraphBreak
          \o Word(MAX_CHARS_PER_REQUEST) }

\* path.join(outputDir, `${cleanFileName}.mp3`): the final artifact.
FinalName(bn) == [base |-> bn, part |-> 0]

\* A part naming that counts from 0, as the loop index does.
PartNameZeroBased(bn, k) == [base |-> bn, part |-> k - 1]

\* `${cleanFileName}-part${i + 1}`.mp3 for the k-th segment, k = i + 1.
PartName(bn, k) == [base |-> bn, part |-> k]

\* The audio the synthesizer returns for a text: build b's rendering of it.
Synthesized(b, t) == [by |-> b, text |-> t]

\* A complete file written by build b holding the given audio segments.
AudioFile(b, segments) == [kind |-> "audio", by |-> b, audio |-> segments]

\* A file build b (or the ffmpeg it spawned) began to write and did not finish.
PartialFile(b) == [kind |-> "partial", by |-> b, audio |-> <<>>]

\* fs.statSync(filePath).size, one unit per synthesized character.
RECURSIVE SizeOf(_)
SizeOf(segments) ==
    IF segments = <<>> THEN 0 ELSE Len(Head(segments).text) + SizeOf(Tail(segments))

\* path.join(this.outputDir, '.concat-list.txt') (line 277): one path of the
\* output directory, whatever the base name of the build.
ConcatListPath == [base |-> ".concat-list.txt", part |-> 0]

\* No file at ConcatListPath. A concat list that exists records the build that
\* wrote it and the part files it names, in order.
NoList == [exists |-> FALSE, by |-> 0, entries |-> <<>>]

NoError == [prefix |-> "", message |-> ""]

NoResult == [fileName |-> FinalName(""), size |-> -1]

TTSPrefix == "TTS generation failed"

FFmpegPrefix == "FFmpeg concatenation failed"

\* One call of splitTextIntoChunks on its own: where the call stands, its
\* argument and its return value.
VARIABLES seg_pc, seg_text, seg_chunks

segVars == <<seg_pc, seg_text, seg_chunks>>

VARIABLES
    files,       \* the output directory: file name -> content
    concatList,  \* the file .concat-list.txt of the output directory
    pc,          \* where each build stands
    cleanFileName, \* cleanFileName of each build
    cleanedContent, \* cleanedContent of each build
    chunks,      \* chunks of each build
    partFiles,   \* partFiles of each build
    inflight,    \* segments whose synthesizeSpeech call has not returned
    synthLog,    \* the generateAudio calls of each build, in order
    mergeLog,    \* the concatenateAudioFiles calls of each build, in order
    err,         \* the error a build threw
    result,      \* the AudioFile a build returned
    touched      \* the paths each build (and its ffmpeg) wrote or deleted

buildVars == <<files, concatList, pc, cleanFileName, cleanedContent, chunks, partFiles, inflight,
               synthLog, mergeLog, err, result, touched>>

\* The TTSOptions argument of each build, as the caller holds it.
VARIABLE options

\* One title given to the three copies of createCleanFileName: where the
\* calls stand, the title, and what each copy returned.
VARIABLES fn_pc, fn_title, fn_names

nameVars == <<fn_pc, fn_title, fn_names>>

\* The DocumentProcessor the controller shares between its requests, the
\* audio directory tree, and the processDocument calls on that processor.
VARIABLES
    generatorDir,    \* outputDir of this.audioGenerator, below baseOutputDir
    fileManagerDir,  \* baseAudioDir of this.fileManager, below baseOutputDir
    audioAt,         \* the <dir>/<chapter>.mp3 files that exist
    metadataAt,      \* the <dir>/<documentId>/metadata.json files that exist
    dp_pc,           \* where each processDocument call stands
    dp_input,        \* its arguments: document id, onProgress, forceRegenerate
    dp_chapters,     \* chapters.length
    dp_regen,        \* shouldRegenerate
    dp_audioFiles,   \* audioFiles
    dp_callDir,      \* outputDir of the generator whose call is awaited
    dp_progress,     \* the onProgress invocations, in order
    dp_result,       \* how the promise of the call was settled
    dp_wrote,        \* the audio and metadata paths the call wrote
    job,             \* the entry of processingJobs for the request
    statusLog        \* every value job.status was given, in order

docVars == <<generatorDir, fileManagerDir, audioAt, metadataAt, dp_pc, dp_input, dp_chapters,
             dp_regen, dp_audioFiles, dp_callDir, dp_progress, dp_result, dp_wrote, job,
             statusLog>>

\* What the turns of a build leave alone.
restVars == <<segVars, options, nameVars, docVars>>

vars == <<buildVars, restVars>>

Settled == {"done", "failed", "hung"}

Exists(n) == n \in DOMAIN files

\* A write that adds to the file that is there.
WriteFileAppend(fs, n, c) ==
    [m \in DOMAIN fs \cup {n} |->
        IF m # n THEN fs[m]
        ELSE IF n \in DOMAIN fs THEN [c EXCEPT !.audio = fs[n].audio \o c.audio] ELSE c]

\* fs.writeFileSync / ffmpeg output: create or replace the file n.
WriteFile(fs, n, c) == [m \in DOMAIN fs \cup {n} |-> IF m = n THEN c ELSE fs[m]]

\* fs.unlinkSync of every name in ns that exists.
RemoveFiles(fs, ns) == [m \in DOMAIN fs \ ns |-> fs[m]]

\* The test of line 348 with < in place of <=.
IsDirectStrict(t) == Len(t) < MAX_CHARS_PER_REQUEST

\* cleanedContent.length <= MAX_CHARS_PER_REQUEST (line 348): the Direct path.
IsDirect(t) == Len(t) <= MAX_CHARS_PER_REQUEST

\* A loop that stops one iteration early.
LoopDoneEarly(parts, cs) == Len(parts) + 1 >= Len(cs)

\* The loop condition of line 361 is false: i = partFiles.length >= chunks.length.
LoopDone(parts, cs) == Len(parts) >= Len(cs)

\* A loop that starts every remaining call without awaiting the previous one.
LoopIssueNoAwait(n, k) == k..n

\* The synthesis calls started by iteration k of the loop over n chunks:
\* `await this.generateAudio(chunks[i], ...)` (line 365) starts one call and
\* suspends the loop until it returns.
LoopIssue(n, k) == IF k <= n THEN {k} ELSE {}

\* ----------------------------------------------------- the build: actions

\* The TTSOptions a caller passes (lines 7-19), by two of their fields: the
\* voice name ("" when voice is not given) and the speaking rate in halves of
\* the normal rate (0 when not given: undefined and 0 are both falsy).
NoOptions == [name |-> "", speakingRate |-> 0]

TTSOptions ==
    { NoOptions,
      [name |-> "en-US-Neural2-D", speakingRate |-> 0],
      [name |-> "en-US-Neural2-D", speakingRate |-> 3] }

\* The voice and audioConfig of the request generateAudio builds from its
\* options (lines 52-63): `||` puts the default in place of a falsy field.
Request(o) ==
    [name |-> IF o.name = "" THEN "en-GB-Neural2-A" ELSE o.name,
     speakingRate |-> IF o.speakingRate = 0 THEN 2 ELSE o.speakingRate]

\* A build that passes its options to the call for the first segment only.
OptionsForFirstCallOnly(o, k) == IF k = 1 THEN o ELSE NoOptions

\* The options argument of the generateAudio call for segment k: `options`
\* as the build received it (lines 351 and 365).
OptionsForCall(o, k) == o

\* One generateAudio(text, fileName, options) call as the log keeps it, with
\* the request it sends to synthesizeSpeech.
Call(t, f, o) == [text |-> t, file |-> f, options |-> o, request |-> Request(o)]

\* fs.writeFileSync(concatListPath, concatList) of line 280 by build b: the
\* list is written; or the file could not be opened and the directory is as
\* it was; or it was opened, which creates or truncates it, and the write
\* failed.
ListWritten(b, parts, outcome) ==
    CASE outcome = "written"    -> [exists |-> TRUE, by |-> b, entries |-> parts]
      [] outcome = "truncated"  -> [exists |-> TRUE, by |-> b, entries |-> <<>>]
      [] outcome = "not opened" -> concatList

\* The loop of lines 361-367 resumed with `parts` written, and the merge call
\* of line 373 once the loop is done. concatenateAudioFiles writes the concat
\* list (line 280) and spawns ffmpeg; a failing writeFileSync rejects the
\* promise with the file system's own error. `wrote` is what the caller wrote
\* in the same turn.
LoopOrMerge(b, bn, cs, parts, wrote) ==
    IF ~LoopDone(parts, cs)
    THEN /\ touched' = [touched EXCEPT ![b] = @ \cup wrote]
         /\ synthLog' = [synthLog EXCEPT ![b] =
                Append(@, Call(cs[Len(parts) + 1], PartName(bn, Len(parts) + 1),
                               OptionsForCall(options[b], Len(parts) + 1)))]
         /\ inflight' = [inflight EXCEPT ![b] = LoopIssue(Len(cs), Len(parts) + 1)]
         /\ pc' = [pc EXCEPT ![b] = "await_synth"]
         /\ UNCHANGED <<mergeLog, concatList, err>>
    ELSE /\ mergeLog' = [mergeLog EXCEPT ![b] =
                Append(@, [parts |-> parts, output |-> FinalName(bn)])]
         /\ inflight' = [inflight EXCEPT ![b] = {}]
         /\ UNCHANGED synthLog
         /\ \E outcome \in {"written", "not opened", "truncated"} :
                /\ concatList' = ListWritten(b, parts, outcome)
                /\ touched' = [touched EXCEPT ![b] =
                        @ \cup wrote \cup
                        (IF outcome = "not opened" THEN {} ELSE {ConcatListPath})]
                /\ IF outcome = "written"
                   THEN /\ pc' = [pc EXCEPT ![b] = "ffmpeg"]
                        /\ UNCHANGED err
                   ELSE /\ pc' = [pc EXCEPT ![b] = "failed"]
                        /\ err' = [err EXCEPT ![b] =
                               [prefix |-> "", message |-> "write .concat-list.txt"]]

\* generateChapterAudioWithChunking(title, content, id, options) up to its
\* first await (lines 344-365), for base name bn and cleaned text t: the
\* Direct path calls generateAudio on the whole text, the Chunked path splits
\* and enters the loop.
BeginBuildOn(b, bn, t) ==
    /\ pc[b] = "idle"
    /\ cleanFileName' = [cleanFileName EXCEPT ![b] = bn]
    /\ cleanedContent' = [cleanedContent EXCEPT ![b] = t]
    /\ IF IsDirect(t)
       THEN /\ synthLog' = [synthLog EXCEPT ![b] =
                    <<Call(t, FinalName(bn), OptionsForCall(options[b], 1))>>]
            /\ inflight' = [inflight EXCEPT ![b] = {1}]
            /\ pc' = [pc EXCEPT ![b] = "await_synth"]
            /\ UNCHANGED <<chunks, mergeLog, concatList, err, touched>>
       ELSE /\ chunks' = [chunks EXCEPT ![b] = splitTextIntoChunks(t)]
            /\ LoopOrMerge(b, bn, splitTextIntoChunks(t), <<>>, {})
    /\ UNCHANGED <<files, partFiles, result, restVars>>

\* A build of one of the chapters of BuildTexts.
BeginBuild(b) ==
    \E bn \in BaseNames, t \in BuildTexts : BeginBuildOn(b, bn, t)

\* A caller that awaits each build before it starts the next one.
StartBuild(b) ==
    /\ \A c \in Builds : c < b => pc[c] \in Settled
    /\ BeginBuild(b)

\* synthesizeSpeech returns audio for segment k (lines 66-81): the file is
\* written; the Direct path returns it, the Chunked path pushes it on
\* partFiles and goes on with the loop.
SynthesisReturns(b) ==
    /\ pc[b] = "await_synth"
    /\ \E k \in inflight[b] :
        LET direct == IsDirect(cleanedContent[b])
            target == IF direct THEN FinalName(cleanFileName[b]) ELSE PartName(cleanFileName[b], k)
            spoken == IF direct THEN cleanedContent[b] ELSE chunks[b][k]
            audio  == <<Synthesized(b, spoken)>>
        IN  /\ files' = WriteFile(files, target, AudioFile(b, audio))
            /\ IF direct
               THEN /\ pc' = [pc EXCEPT ![b] = "done"]
                    /\ inflight' = [inflight EXCEPT ![b] = {}]
                    /\ result' = [result EXCEPT ![b] =
                            [fileName |-> target, size |-> SizeOf(audio)]]
                    /\ touched' = [touched EXCEPT ![b] = @ \cup {target}]
                    /\ UNCHANGED <<partFiles, synthLog, mergeLog, concatList, err>>
               ELSE /\ partFiles' = [partFiles EXCEPT ![b] = Append(@, target)]
                    /\ LoopOrMerge(b, cleanFileName[b], chunks[b], Append(partFiles[b], target),
                                   {target})
                    /\ UNCHANGED result
    /\ UNCHANGED <<cleanFileName, cleanedContent, chunks, restVars>>

\* A loop that catches the error of segment k and calls the synthesis for
\* the same segment again.
RetryAfterFailure(k) == {k}

\* The synthesis calls made once the call for segment k has thrown: the loop
\* of lines 361-367 has no try/catch, and neither has the Direct path of
\* line 351, so the error leaves the build and no call follows.
CallsAfterFailure(k) == {}

\* generateAudio throws (lines 66-84): the call is rejected or returns no
\* audioContent and nothing is written, or writeFileSync fails after it
\* truncated the target. The error leaves the build as it is thrown.
SynthesisFails(b) ==
    /\ pc[b] = "await_synth"
    /\ \E k \in inflight[b],
          cause \in {"synthesizeSpeech rejected",
                     "No audio content received from TTS service",
                     "write failed"} :
        LET target == IF IsDirect(cleanedContent[b]) THEN FinalName(cleanFileName[b])
                                           ELSE PartName(cleanFileName[b], k)
        IN  /\ files' = IF cause = "write failed"
                        THEN WriteFile(files, target, PartialFile(b))
                        ELSE files
            /\ touched' = [touched EXCEPT ![b] =
                    IF cause = "write failed" THEN @ \cup {target} ELSE @]
            /\ err' = [err EXCEPT ![b] = [prefix |-> TTSPrefix, message |-> cause]]
            /\ inflight' = [inflight EXCEPT ![b] = CallsAfterFailure(k)]
            /\ pc' = [pc EXCEPT ![b] =
                    IF CallsAfterFailure(k) = {} THEN "failed" ELSE "await_synth"]
    /\ UNCHANGED <<concatList, cleanFileName, cleanedContent, chunks, partFiles, synthLog, mergeLog,
                   result, restVars>>

\* What the ffmpeg process of build b reads and writes: the concat list as it
\* is in the directory, the files it names, and the output path (-y: an
\* existing output is overwritten).
FfmpegInputsReadable ==
    /\ concatList.exists
    /\ concatList.entries # <<>>
    /\ \A i \in DOMAIN concatList.entries :
           /\ Exists(concatList.entries[i])
           /\ files[concatList.entries[i]].kind = "audio"

\* An ffmpeg that writes its inputs last first.
FfmpegMergedReversed ==
    Flatten([i \in DOMAIN concatList.entries |->
                files[concatList.entries[Len(concatList.entries) + 1 - i]].audio])

\* The output of `-f concat ... -acodec copy`: the audio of the listed files,
\* in the order of the list.
FfmpegMerged ==
    Flatten([i \in DOMAIN concatList.entries |-> files[concatList.entries[i]].audio])

\* ffmpeg -f concat -safe 0 -i .concat-list.txt -acodec copy <output> runs to
\* its end (lines 282-285, 303).
FfmpegEnds(b) ==
    /\ pc[b] = "ffmpeg"
    /\ FfmpegInputsReadable
    /\ files' = WriteFile(files, mergeLog[b][Len(mergeLog[b])].output,
                          AudioFile(b, FfmpegMerged))
    /\ touched' = [touched EXCEPT ![b] = @ \cup {mergeLog[b][Len(mergeLog[b])].output}]
    /\ pc' = [pc EXCEPT ![b] = "merge_end"]
    /\ UNCHANGED <<concatList, cleanFileName, cleanedContent, chunks, partFiles, inflight, synthLog,
                   mergeLog, err, result, restVars>>

\* The ffmpeg process fails: before it opened its output, or after, leaving
\* an unfinished output file.
FfmpegFails(b) ==
    /\ pc[b] = "ffmpeg"
    /\ \E opened \in BOOLEAN :
           /\ files' = IF opened
                       THEN WriteFile(files, mergeLog[b][Len(mergeLog[b])].output,
                                      PartialFile(b))
                       ELSE files
           /\ touched' = [touched EXCEPT ![b] =
                   IF opened THEN @ \cup {mergeLog[b][Len(mergeLog[b])].output} ELSE @]
    /\ pc' = [pc EXCEPT ![b] = "merge_error"]
    /\ UNCHANGED <<concatList, cleanFileName, cleanedContent, chunks, partFiles, inflight, synthLog,
                   mergeLog, err, result, restVars>>

\* The 'end' handler (lines 286-295) and the return of lines 375-382.
\* fs.unlinkSync(concatListPath) of line 288 is not guarded: when the list is
\* gone, or the file system refuses to delete it, it throws inside the
\* handler, resolve() of line 294 is not reached and the promise is never
\* settled.
MergeEndHandler(b) ==
    /\ pc[b] = "merge_end"
    /\ \E deletable \in BOOLEAN :
       IF ~concatList.exists \/ ~deletable
       THEN /\ pc' = [pc EXCEPT ![b] = "hung"]
            /\ UNCHANGED <<files, concatList, err, result, touched>>
       ELSE /\ concatList' = NoList
            /\ files' = RemoveFiles(files, Range(partFiles[b]))
            /\ touched' = [touched EXCEPT ![b] =
                    @ \cup {ConcatListPath} \cup (Range(partFiles[b]) \cap DOMAIN files)]
            /\ IF FinalName(cleanFileName[b]) \in DOMAIN files'
               THEN /\ pc' = [pc EXCEPT ![b] = "done"]
                    /\ result' = [result EXCEPT ![b] =
                            [fileName |-> FinalName(cleanFileName[b]),
                             size |-> SizeOf(files'[FinalName(cleanFileName[b])].audio)]]
                    /\ UNCHANGED err
               ELSE /\ pc' = [pc EXCEPT ![b] = "failed"]
                    /\ err' = [err EXCEPT ![b] =
                            [prefix |-> "", message |-> "ENOENT stat"]]
                    /\ UNCHANGED result
    /\ UNCHANGED <<cleanFileName, cleanedContent, chunks, partFiles, inflight, synthLog, mergeLog,
                   restVars>>

\* The 'error' handler (lines 296-302): the concat list is removed, the part
\* files and the output are left as they are, the promise is rejected.
MergeErrorHandler(b) ==
    /\ pc[b] = "merge_error"
    /\ concatList' = NoList
    /\ touched' = [touched EXCEPT ![b] =
            IF concatList.exists THEN @ \cup {ConcatListPath} ELSE @]
    /\ pc' = [pc EXCEPT ![b] = "failed"]
    /\ err' = [err EXCEPT ![b] = [prefix |-> FFmpegPrefix, message |-> "ffmpeg"]]
    /\ UNCHANGED <<files, cleanFileName, cleanedContent, chunks, partFiles, inflight, synthLog,
                   mergeLog, result, restVars>>

\* The two requests a client posts to the controller, or the two direct
\* calls of processDocument on one DocumentProcessor.
Requests == {1, 2}

\* Document ids extractDocumentId returns; "" stands for null.
DocumentIds == {"docA", "docB"}

NotSettled == [settled |-> "pending", success |-> FALSE, totalChapters |-> 0,
               audioFiles |-> <<>>, error |-> ""]

NoJob == [status |-> "", currentStage |-> ""]

\* new DocumentProcessor('./audio') (fileManager.ts lines 335-339,
\* bookController.ts lines 10-12): generator and file manager on the base
\* directory "", an empty tree, no request yet.
DocInit ==
    /\ generatorDir = ""
    /\ fileManagerDir = ""
    /\ audioAt = {}
    /\ metadataAt = {}
    /\ dp_pc = [j \in Requests |-> "idle"]
    /\ dp_input = [j \in Requests |->
                      [documentId |-> "", onProgress |-> "none", forceRegenerate |-> FALSE]]
    /\ dp_chapters = [j \in Requests |-> 0]
    /\ dp_regen = [j \in Requests |-> FALSE]
    /\ dp_audioFiles = [j \in Requests |-> <<>>]
    /\ dp_callDir = [j \in Requests |-> ""]
    /\ dp_progress = [j \in Requests |-> <<>>]
    /\ dp_result = [j \in Requests |-> NotSettled]
    /\ dp_wrote = [j \in Requests |-> {}]
    /\ job = [j \in Requests |-> NoJob]
    /\ statusLog = [j \in Requests |-> <<>>]

\* No createCleanFileName call is looked at.
NamesIdle ==
    /\ fn_pc = "off"
    /\ fn_title = <<>>
    /\ fn_names = <<>>

\* A new AudioGenerator on an empty output directory (lines 33-43).
BuildInit ==
    /\ files = [n \in {} |-> PartialFile(0)]
    /\ concatList = NoList
    /\ pc = [b \in Builds |-> "idle"]
    /\ cleanFileName = [b \in Builds |-> ""]
    /\ cleanedContent = [b \in Builds |-> <<>>]
    /\ chunks = [b \in Builds |-> <<>>]
    /\ partFiles = [b \in Builds |-> <<>>]
    /\ inflight = [b \in Builds |-> {}]
    /\ synthLog = [b \in Builds |-> <<>>]
    /\ mergeLog = [b \in Builds |-> <<>>]
    /\ err = [b \in Builds |-> NoError]
    /\ result = [b \in Builds |-> NoResult]
    /\ touched = [b \in Builds |-> {}]

Init ==
    /\ BuildInit
    /\ options = [b \in Builds |-> NoOptions]
    /\ NamesIdle
    /\ DocInit
    /\ seg_pc = "off"
    /\ seg_text = <<>>
    /\ seg_chunks = <<>>

Next ==
    \E b \in Builds :
        \/ StartBuild(b)
        \/ SynthesisReturns(b)
        \/ SynthesisFails(b)
        \/ FfmpegEnds(b)
        \/ FfmpegFails(b)
        \/ MergeEndHandler(b)
        \/ MergeErrorHandler(b)

Spec == Init /\ [][Next]_vars

\* ------------------------------------------------------ concurrent builds

\* The two builds a caller starts without awaiting the first.
ConcurrentBuilds == {1, 2}

\* Two calls of generateChapterAudioWithChunking on one AudioGenerator whose
\* turns interleave at every await and at every event of an ffmpeg process.
ConcNext ==
    \E b \in ConcurrentBuilds :
        \/ BeginBuild(b)
        \/ SynthesisReturns(b)
        \/ SynthesisFails(b)
        \/ FfmpegEnds(b)
        \/ FfmpegFails(b)
        \/ MergeEndHandler(b)
        \/ MergeErrorHandler(b)

ConcSpec == Init /\ [][ConcNext]_vars

\* The two builds are called with any options.
OptInit ==
    /\ BuildInit
    /\ options \in [Builds -> TTSOptions]
    /\ \A b \in Builds \ ConcurrentBuilds : options[b] = NoOptions
    /\ NamesIdle
    /\ DocInit
    /\ seg_pc = "off"
    /\ seg_text = <<>>
    /\ seg_chunks = <<>>

OptSpec == OptInit /\ [][ConcNext]_vars

\* ------------------------------------------------------ segmenter harness

SegInit ==
    /\ BuildInit
    /\ options = [b \in Builds |-> NoOptions]
    /\ NamesIdle
    /\ DocInit
    /\ seg_pc = "ready"
    /\ seg_text \in TextsUpTo(MaxTextLen)
    /\ seg_chunks = <<>>

\* A call of splitTextIntoChunks(seg_text).
Segment ==
    /\ seg_pc = "ready"
    /\ seg_chunks' = splitTextIntoChunks(seg_text)
    /\ seg_pc' = "done"
    /\ UNCHANGED <<seg_text, buildVars, options, nameVars, docVars>>

SegNext == Segment

SegSpec == SegInit /\ [][SegNext]_vars

\* -------------------------------------------------- document processing

\* The argument of one onProgress invocation (percentage and message left out).
Progress(stage, current, total) == [stage |-> stage, current |-> current, total |-> total]

\* A reportProgress that leaves out the 'complete' report.
reportProgressNoComplete(cb, log, stage, current, total) ==
    IF cb # "none" /\ stage # "complete"
    THEN Append(log, Progress(stage, current, total))
    ELSE log

\* reportProgress (fileManager.ts lines 349-354): the callback is invoked when
\* one was supplied.
reportProgress(cb, log, stage, current, total) ==
    IF cb # "none" THEN Append(log, Progress(stage, current, total)) ELSE log

\* The onProgress closure of the controller (bookController.ts lines 39-46):
\* it stores the stage of the last report in the job and leaves job.status.
JobAfter(jb, cb, log, seen) ==
    IF cb = "job" /\ Len(log) > seen
    THEN [jb EXCEPT !.currentStage = log[Len(log)].stage]
    ELSE jb

\* A processDocument whose catch throws the error on.
Rethrown(msg) ==
    [settled |-> "rejected", success |-> FALSE, totalChapters |-> 0,
     audioFiles |-> <<>>, error |-> msg]

\* The catch of fileManager.ts lines 508-517: the promise is resolved with a
\* failure result.
Caught(msg) ==
    [settled |-> "resolved", success |-> FALSE, totalChapters |-> 0,
     audioFiles |-> <<>>, error |-> msg]

\* The return of lines 499-506.
Succeeded(n, af) ==
    [settled |-> "resolved", success |-> TRUE, totalChapters |-> n,
     audioFiles |-> af, error |-> ""]

\* <dir>/<cleanFileName of chapter i>.mp3 and <dir>/<documentId>/metadata.json,
\* dir below the base directory.
AudioPath(dir, i) == [kind |-> "audio", dir |-> dir, name |-> i]

MetadataPath(dir, d) == [kind |-> "metadata", dir |-> dir, name |-> d]

\* The loop of lines 423-478 from chapter Len(af) + 1 on, up to its next
\* await or its end: a chapter whose file exists in the directory of
\* this.audioGenerator is reused in the same turn when nothing is to be
\* regenerated, else generateChapterAudio is called.
RECURSIVE LoopRun(_, _, _, _, _, _)
LoopRun(dir, regen, n, af, log, cb) ==
    IF Len(af) >= n
    THEN [audioFiles |-> af, progress |-> log, call |-> FALSE]
    ELSE LET i == Len(af) + 1
             reported == reportProgress(cb, log, "generating", i, n)
         IN  IF ~regen /\ AudioPath(dir, i) \in audioAt
             THEN LoopRun(dir, regen, n, Append(af, AudioPath(dir, i)), reported, cb)
             ELSE [audioFiles |-> af, progress |-> reported, call |-> TRUE]

\* The error of a turn is caught (lines 508-517).
Fail(j, log, msg) ==
    /\ dp_result' = [dp_result EXCEPT ![j] = Caught(msg)]
    /\ dp_pc' = [dp_pc EXCEPT ![j] = IF Caught(msg).settled = "resolved"
                                     THEN "settled" ELSE "rejected"]
    /\ dp_progress' = [dp_progress EXCEPT ![j] = log]
    /\ job' = [job EXCEPT ![j] = JobAfter(@, dp_input[j].onProgress, log, Len(dp_progress[j]))]

\* Lines 423-506 with n chapters, af generated or reused so far: on to the
\* next generateChapterAudio call, or past the loop to saveMetadata, the
\* 'complete' report and the return.
Generate(j, n, regen, af, log, wrote) ==
    LET cb == dp_input[j].onProgress
        r  == LoopRun(generatorDir, regen, n, af, log, cb)
    IN  /\ dp_audioFiles' = [dp_audioFiles EXCEPT ![j] = r.audioFiles]
        /\ IF r.call
           THEN /\ dp_pc' = [dp_pc EXCEPT ![j] = "generating"]
                /\ dp_callDir' = [dp_callDir EXCEPT ![j] = generatorDir]
                /\ dp_progress' = [dp_progress EXCEPT ![j] = r.progress]
                /\ job' = [job EXCEPT ![j] =
                        JobAfter(@, cb, r.progress, Len(dp_progress[j]))]
                /\ dp_wrote' = [dp_wrote EXCEPT ![j] = wrote]
                /\ UNCHANGED <<metadataAt, dp_result>>
           ELSE /\ metadataAt' = metadataAt \cup
                        {MetadataPath(fileManagerDir, dp_input[j].documentId)}
                /\ dp_wrote' = [dp_wrote EXCEPT ![j] =
                        wrote \cup {MetadataPath(fileManagerDir, dp_input[j].documentId)}]
                /\ dp_progress' = [dp_progress EXCEPT ![j] =
                        reportProgress(cb, r.progress, "complete", n, n)]
                /\ job' = [job EXCEPT ![j] =
                        JobAfter(@, cb, reportProgress(cb, r.progress, "complete", n, n),
                                 Len(dp_progress[j]))]
                /\ dp_result' = [dp_result EXCEPT ![j] = Succeeded(n, r.audioFiles)]
                /\ dp_pc' = [dp_pc EXCEPT ![j] = "settled"]
                /\ UNCHANGED dp_callDir

\* Lines 412-421 once the chapters are known: loadMetadata through
\* this.fileManager, shouldRegenerate, and into the loop.
Detected(j, n, log) ==
    LET regen == dp_input[j].forceRegenerate
                 \/ MetadataPath(fileManagerDir, dp_input[j].documentId) \notin metadataAt
    IN  /\ dp_chapters' = [dp_chapters EXCEPT ![j] = n]
        /\ dp_regen' = [dp_regen EXCEPT ![j] = regen]
        /\ Generate(j, n, regen, <<>>, log, dp_wrote[j])

\* A request: BookController.processDocument registers the job and calls
\* processDocument with its onProgress closure (bookController.ts lines
\* 26-50); or a direct call without onProgress. processDocument runs to its
\* first await (fileManager.ts lines 356-375): an id that cannot be extracted
\* is caught; else the generator and the file manager of the shared processor
\* are replaced by ones on the directory of the document.
StartProcess(j) ==
    /\ dp_pc[j] = "idle"
    /\ \E d \in DocumentIds \cup {""}, cb \in {"none", "job"}, force \in BOOLEAN :
        LET first == reportProgress(cb, <<>>, "fetching", 1, 5)
            registered == IF cb = "job"
                          THEN [status |-> "processing", currentStage |-> ""]
                          ELSE NoJob
        IN  /\ dp_input' = [dp_input EXCEPT ![j] =
                    [documentId |-> d, onProgress |-> cb, forceRegenerate |-> force]]
            /\ statusLog' = [statusLog EXCEPT ![j] =
                    IF cb = "job" THEN <<"processing">> ELSE <<>>]
            /\ IF d = ""
               THEN /\ dp_result' = [dp_result EXCEPT ![j] =
                            Caught("Invalid document ID or URL")]
                    /\ dp_pc' = [dp_pc EXCEPT ![j] =
                            IF Caught("Invalid document ID or URL").settled = "resolved"
                            THEN "settled" ELSE "rejected"]
                    /\ dp_progress' = [dp_progress EXCEPT ![j] = first]
                    /\ job' = [job EXCEPT ![j] = JobAfter(registered, cb, first, 0)]
                    /\ UNCHANGED <<generatorDir, fileManagerDir>>
               ELSE /\ generatorDir' = d
                    /\ fileManagerDir' = d
                    /\ dp_progress' = [dp_progress EXCEPT ![j] =
                            reportProgress(cb, first, "fetching", 2, 5)]
                    /\ job' = [job EXCEPT ![j] =
                            JobAfter(registered, cb,
                                     reportProgress(cb, first, "fetching", 2, 5), 0)]
                    /\ dp_pc' = [dp_pc EXCEPT ![j] = "fetch_tabs"]
                    /\ UNCHANGED dp_result
    /\ UNCHANGED <<audioAt, metadataAt, dp_chapters, dp_regen, dp_audioFiles, dp_callDir,
                   dp_wrote, buildVars, segVars, options, nameVars>>

\* fetchDocumentWithTabChapters reports (lines 372-393): an error is caught
\* and thrown on with a message of its own; no chapters, and
\* fetchDocumentWithChapters is called; else the chapters are detected.
TabsFetched(j) ==
    /\ dp_pc[j] = "fetch_tabs"
    /\ \E n \in -1..MaxChapters :
        IF n = -1
        THEN /\ Fail(j, dp_progress[j], "Failed to fetch document")
             /\ UNCHANGED <<metadataAt, dp_chapters, dp_regen, dp_audioFiles, dp_callDir,
                            dp_wrote>>
        ELSE IF n = 0
        THEN /\ dp_pc' = [dp_pc EXCEPT ![j] = "fetch_chapters"]
             /\ UNCHANGED <<metadataAt, dp_chapters, dp_regen, dp_audioFiles, dp_callDir,
                            dp_wrote, dp_progress, dp_result, job>>
        ELSE Detected(j, n, reportProgress(dp_input[j].onProgress, dp_progress[j],
                                           "detecting", 3, 5))
    /\ UNCHANGED <<generatorDir, fileManagerDir, audioAt, dp_input, statusLog,
                   buildVars, segVars, options, nameVars>>

\* fetchDocumentWithChapters reports (lines 377-409): no chapters, and after
\* the 'detecting' report fetchDocumentContent is called.
ChaptersFetched(j) ==
    /\ dp_pc[j] = "fetch_chapters"
    /\ \E n \in -1..MaxChapters :
        IF n = -1
        THEN /\ Fail(j, dp_progress[j], "Failed to fetch document")
             /\ UNCHANGED <<metadataAt, dp_chapters, dp_regen, dp_audioFiles, dp_callDir,
                            dp_wrote>>
        ELSE IF n = 0
        THEN /\ dp_pc' = [dp_pc EXCEPT ![j] = "fetch_raw"]
             /\ dp_progress' = [dp_progress EXCEPT ![j] =
                     reportProgress(dp_input[j].onProgress, @, "detecting", 3, 5)]
             /\ job' = [job EXCEPT ![j] =
                     JobAfter(@, dp_input[j].onProgress,
                              reportProgress(dp_input[j].onProgress, dp_progress[j],
                                             "detecting", 3, 5),
                              Len(dp_progress[j]))]
             /\ UNCHANGED <<metadataAt, dp_chapters, dp_regen, dp_audioFiles, dp_callDir,
                            dp_wrote, dp_result>>
        ELSE Detected(j, n, reportProgress(dp_input[j].onProgress, dp_progress[j],
                                           "detecting", 3, 5))
    /\ UNCHANGED <<generatorDir, fileManagerDir, audioAt, dp_input, statusLog,
                   buildVars, segVars, options, nameVars>>

\* fetchDocumentContent reports (lines 398-411): an error or an empty document
\* is caught; else the whole document is the one chapter.
RawFetched(j) ==
    /\ dp_pc[j] = "fetch_raw"
    /\ \E outcome \in {"error", "empty", "content"} :
        IF outcome = "content"
        THEN Detected(j, 1, dp_progress[j])
        ELSE /\ Fail(j, dp_progress[j],
                     IF outcome = "empty" THEN "Document appears to be empty"
                                          ELSE "fetchDocumentContent")
             /\ UNCHANGED <<metadataAt, dp_chapters, dp_regen, dp_audioFiles, dp_callDir,
                            dp_wrote>>
    /\ UNCHANGED <<generatorDir, fileManagerDir, audioAt, dp_input, statusLog,
                   buildVars, segVars, options, nameVars>>

\* generateChapterAudio reports (lines 455-477): an error is caught; else the
\* generator that was called has written the file in its outputDir, the file
\* is pushed on audioFiles and the loop goes on.
ChapterGenerated(j) ==
    /\ dp_pc[j] = "generating"
    /\ \E generated \in BOOLEAN :
        IF generated
        THEN LET file == AudioPath(dp_callDir[j], Len(dp_audioFiles[j]) + 1)
             IN  /\ audioAt' = audioAt \cup {file}
                 /\ Generate(j, dp_chapters[j], dp_regen[j],
                             Append(dp_audioFiles[j], file), dp_progress[j],
                             dp_wrote[j] \cup {file})
        ELSE /\ Fail(j, dp_progress[j], "TTS generation failed")
             /\ UNCHANGED <<audioAt, metadataAt, dp_audioFiles, dp_callDir, dp_wrote>>
    /\ UNCHANGED <<generatorDir, fileManagerDir, dp_input, dp_chapters, dp_regen, statusLog,
                   buildVars, segVars, options, nameVars>>

\* A controller that marks every ended job completed.
JobStatusAlwaysCompleted(r) == "completed"

\* job.status as the .then handler sets it (bookController.ts line 54).
JobStatusFor(r) == IF r.success THEN "completed" ELSE "failed"

\* The promise of processDocument is resolved and its continuation runs: the
\* .then handler of the controller (bookController.ts lines 51-58), or the
\* direct caller that awaited it.
ThenHandler(j) ==
    /\ dp_pc[j] = "settled"
    /\ dp_pc' = [dp_pc EXCEPT ![j] = "handled"]
    /\ IF dp_input[j].onProgress = "job"
       THEN /\ job' = [job EXCEPT ![j].status = JobStatusFor(dp_result[j])]
            /\ statusLog' = [statusLog EXCEPT ![j] = Append(@, JobStatusFor(dp_result[j]))]
       ELSE UNCHANGED <<job, statusLog>>
    /\ UNCHANGED <<generatorDir, fileManagerDir, audioAt, metadataAt, dp_input, dp_chapters,
                   dp_regen, dp_audioFiles, dp_callDir, dp_progress, dp_result, dp_wrote,
                   buildVars, segVars, options, nameVars>>

DocNext ==
    \E j \in Requests :
        \/ StartProcess(j)
        \/ TabsFetched(j)
        \/ ChaptersFetched(j)
        \/ RawFetched(j)
        \/ ChapterGenerated(j)
        \/ ThenHandler(j)

DocSpec == Init /\ [][DocNext]_vars

\* A settled promise runs its continuation: the job queue of the event loop
\* is served.
DocFairSpec == DocSpec /\ \A j \in Requests : WF_vars(ThenHandler(j))

\* -------------------------------------------- createCleanFileName harness

NameInit ==
    /\ BuildInit
    /\ options = [b \in Builds |-> NoOptions]
    /\ seg_pc = "off"
    /\ seg_text = <<>>
    /\ seg_chunks = <<>>
    /\ fn_pc = "ready"
    /\ fn_title \in TitlesUpTo(MaxTitleLen)
    /\ fn_names = <<>>
    /\ DocInit

\* The generator, the document processor and the controller each derive the
\* file name of the chapter titled fn_title.
CleanFileNames ==
    /\ fn_pc = "ready"
    /\ fn_names' = <<createCleanFileName(fn_title),
                     DocumentProcessor_createCleanFileName(fn_title),
                     BookController_createCleanFileName(fn_title)>>
    /\ fn_pc' = "done"
    /\ UNCHANGED <<fn_title, buildVars, segVars, options, docVars>>

NameNext == CleanFileNames

NameSpec == NameInit /\ [][NameNext]_vars

\* ------------------------------------------------ claims on the segmenter

IsBlank(c) == c \in Whitespace

\* s with every whitespace character deleted.
StripWhitespace(s) == SelectSeq(s, LAMBDA c : ~IsBlank(c))

\* c is one sentence unit of an oversized paragraph of t, trimmed, and the
\* unit itself is longer than the ceiling.
IsOversizedSentence(c, t) ==
    \E p \in Range(SplitParagraphs(t)) :
        /\ Len(p) > MAX_CHARS_PER_REQUEST
        /\ \E s \in Range(SplitSentences(p)) :
               Len(s) > MAX_CHARS_PER_REQUEST /\ c = Trim(s)

\* C1: for a text longer than the ceiling every returned segment is at most
\* MAX_CHARS_PER_REQUEST long, unless it is exactly one sentence unit of an
\* oversized paragraph that is itself longer than the ceiling.
C1_SegmentsWithinCeiling ==
    (seg_pc = "done" /\ Len(seg_text) > MAX_CHARS_PER_REQUEST) =>
        \A i \in DOMAIN seg_chunks :
            \/ Len(seg_chunks[i]) <= MAX_CHARS_PER_REQUEST
            \/ IsOversizedSentence(seg_chunks[i], seg_text)

\* A segmented text with an oversized sentence next to a segment that fits.
C1_Witness ==
    /\ seg_pc = "done"
    /\ Len(seg_text) > MAX_CHARS_PER_REQUEST
    /\ \E i, j \in DOMAIN seg_chunks :
           /\ Len(seg_chunks[i]) > MAX_CHARS_PER_REQUEST
           /\ seg_chunks[j] # <<>>
           /\ Len(seg_chunks[j]) <= MAX_CHARS_PER_REQUEST

\* C2: the segments, concatenated in order and stripped of whitespace, are
\* the input stripped of whitespace: nothing is dropped, duplicated or moved.
C2_ContentPreserved ==
    seg_pc = "done" =>
        StripWhitespace(Flatten(seg_chunks)) = StripWhitespace(seg_text)

\* A text cut into three segments at paragraph or sentence breaks, whose
\* separating whitespace was dropped.
C2_Witness ==
    /\ seg_pc = "done"
    /\ Len(seg_chunks) >= 3
    /\ \A i \in DOMAIN seg_chunks : seg_chunks[i] # <<>>
    /\ Len(Flatten(seg_chunks)) < Len(seg_text)

\* What cleanContentForTTS hands to the segmenter: trimmed and not empty.
IsCleanedText(t) == t # <<>> /\ Trim(t) = t

\* C3: every returned segment is non-empty after trimming. Stated here for
\* the texts a build passes in (non-empty, already trimmed), which the claim
\* covers a fortiori.
C3_SegmentsNonEmpty ==
    (seg_pc = "done" /\ IsCleanedText(seg_text)) =>
        \A i \in DOMAIN seg_chunks : Trim(seg_chunks[i]) # <<>>

SomeSegmentNonEmpty == \E i \in DOMAIN seg_chunks : seg_chunks[i] # <<>>

Chunked(b) == pc[b] # "idle" /\ Len(cleanedContent[b]) > MAX_CHARS_PER_REQUEST

\* Build b has ended and no later build has started.
LastEnded(b) ==
    /\ pc[b] \in {"done", "failed"}
    /\ \A c \in Builds : c > b => pc[c] = "idle"

\* The files named <cleanFileName>-part<k>.mp3 in the output directory.
PartFilesOf(bn) == {n \in DOMAIN files : n.base = bn /\ n.part >= 1}

\* C4: after a chunked build failed in the synthesis of segment k, none of
\* the part files it wrote for segments 1..k-1 remains in the output
\* directory and it left no final artifact.
C4_NoPartFilesAfterSynthesisFailure ==
    \A b \in Builds :
        (Chunked(b) /\ LastEnded(b) /\ pc[b] = "failed" /\ err[b].prefix = TTSPrefix) =>
            /\ \A i \in DOMAIN partFiles[b] :
                   ~(Exists(partFiles[b][i]) /\ files[partFiles[b][i]].by = b)
            /\ Exists(FinalName(cleanFileName[b])) =>
                   files[FinalName(cleanFileName[b])].by # b

\* C5: when ffmpeg fails, the build raises the merge error, all its part files
\* are removed and it leaves no final artifact, complete or partial, at
\* <cleanFileName>.mp3.
C5_CleanAfterMergeFailure ==
    \A b \in Builds :
        (Chunked(b) /\ LastEnded(b) /\ pc[b] = "failed" /\ err[b].prefix = FFmpegPrefix) =>
            /\ \A i \in DOMAIN partFiles[b] : ~Exists(partFiles[b][i])
            /\ Exists(FinalName(cleanFileName[b])) =>
                   files[FinalName(cleanFileName[b])].by # b

\* C6: right after a chunked build returned, whatever builds ran before it,
\* the output directory holds no file <cleanFileName>-part<k>.mp3 and holds
\* the final artifact <cleanFileName>.mp3.
C6_OnlyTheArtifactAfterSuccess ==
    \A b \in Builds :
        (Chunked(b) /\ LastEnded(b) /\ pc[b] = "done") =>
            /\ PartFilesOf(cleanFileName[b]) = {}
            /\ Exists(FinalName(cleanFileName[b]))

\* C7: a build whose cleaned text is not longer than the ceiling calls the
\* synthesis once, on the whole text, and never calls the merge.
C7_DirectPathSynthesizesOnce ==
    \A b \in Builds :
        (pc[b] # "idle" /\ Len(cleanedContent[b]) <= MAX_CHARS_PER_REQUEST) =>
            /\ Len(synthLog[b]) = 1
            /\ synthLog[b][1].text = cleanedContent[b]
            /\ mergeLog[b] = <<>>
            /\ pc[b] \in {"await_synth", "done", "failed"}

\* A Direct build of a text exactly at the ceiling has returned.
C7_Witness ==
    \E b \in Builds :
        /\ pc[b] = "done"
        /\ Len(cleanedContent[b]) = MAX_CHARS_PER_REQUEST
        /\ Exists(FinalName(cleanFileName[b]))

\* C8: a successful build of a text longer than the ceiling has called the
\* synthesis once per segment of the segmenter, the i-th call with the i-th
\* segment.
C8_OneSynthesisPerSegmentInOrder ==
    \A b \in Builds :
        (pc[b] = "done" /\ Len(cleanedContent[b]) > MAX_CHARS_PER_REQUEST) =>
            /\ Len(synthLog[b]) = Len(splitTextIntoChunks(cleanedContent[b]))
            /\ \A i \in DOMAIN synthLog[b] :
                   synthLog[b][i].text = splitTextIntoChunks(cleanedContent[b])[i]

\* A chunked build of three segments has returned.
C8_Witness ==
    \E b \in Builds :
        /\ pc[b] = "done"
        /\ Len(cleanedContent[b]) > MAX_CHARS_PER_REQUEST
        /\ Len(synthLog[b]) = 3

\* C9: a build has at most one synthesis call in flight, and the call for
\* segment k is in flight only when the calls for segments 1..k-1 have
\* returned and their part files are written.
C9_OneSynthesisInFlight ==
    \A b \in Builds :
        /\ Cardinality(inflight[b]) <= 1
        /\ \A k \in inflight[b] :
               /\ Len(synthLog[b]) = k
               /\ Chunked(b) =>
                      /\ Len(partFiles[b]) = k - 1
                      /\ \A i \in 1..(k - 1) :
                             /\ partFiles[b][i] = [base |-> cleanFileName[b], part |-> i]
                             /\ Exists(partFiles[b][i])
                             /\ files[partFiles[b][i]] =
                                    AudioFile(b, <<Synthesized(b, chunks[b][i])>>)

\* The call for the third segment is in flight.
C9_Witness ==
    \E b \in Builds : Chunked(b) /\ inflight[b] = {3}

\* C10: a chunked build calls the merge at most once, only when every segment
\* has been synthesized, with the part files of segments 1..N in that order,
\* the 0-indexed segment i being <cleanFileName>-part<i+1>; and it has called
\* it once when it is past the loop.
C10_MergeOnceAfterAllParts ==
    \A b \in Builds :
        Chunked(b) =>
            LET N == Len(splitTextIntoChunks(cleanedContent[b]))
            IN  /\ Len(mergeLog[b]) <= 1
                /\ (pc[b] \in {"ffmpeg", "merge_end", "merge_error", "done"}) =>
                       Len(mergeLog[b]) = 1
                /\ mergeLog[b] # <<>> =>
                       /\ Len(synthLog[b]) = N
                       /\ inflight[b] = {}
                       /\ mergeLog[b][1].parts =
                              [i \in 1..N |-> [base |-> cleanFileName[b], part |-> i]]
                       /\ \A i \in 1..N :
                              synthLog[b][i].file = mergeLog[b][1].parts[i]

\* The merge of three parts has been called and the build has returned.
C10_Witness ==
    \E b \in Builds :
        /\ Chunked(b)
        /\ pc[b] = "done"
        /\ Len(mergeLog[b]) = 1
        /\ Len(mergeLog[b][1].parts) = 3

\* The synthesis call that threw in a failed build: the one after the part
\* files already written.
FailedCall(b) == Len(partFiles[b]) + 1

\* C11: once a synthesis call of a build has failed, the build has ended with
\* that error and returned no artifact, the failed call is the last synthesis
\* call it ever made (no retry, no later segment), and it never called the
\* merge.
C11_FailureAbortsBuild ==
    \A b \in Builds :
        err[b].prefix = TTSPrefix =>
            /\ pc[b] = "failed"
            /\ inflight[b] = {}
            /\ Len(synthLog[b]) = FailedCall(b)
            /\ mergeLog[b] = <<>>
            /\ result[b] = NoResult

\* The second of three segments failed after the first was written.
C11_Witness ==
    \E b \in Builds :
        /\ err[b].prefix = TTSPrefix
        /\ Len(chunks[b]) = 3
        /\ Len(partFiles[b]) = 1
        /\ Len(synthLog[b]) = 2

\* C12: two builds with distinct base names, one after the other in the same
\* output directory, touch disjoint sets of paths (part files, concat list,
\* final artifact). Stated for two builds that both returned.
C12_DistinctBaseNamesTouchDisjointPaths ==
    \A b1, b2 \in Builds :
        (b1 # b2 /\ pc[b1] = "done" /\ pc[b2] = "done"
                 /\ cleanFileName[b1] # cleanFileName[b2]) =>
            touched[b1] \cap touched[b2] = {}

\* The segments build b synthesizes: the whole text on the Direct path, the
\* chunks on the Chunked path.
SegmentsOf(b) ==
    IF Len(cleanedContent[b]) <= MAX_CHARS_PER_REQUEST
    THEN <<cleanedContent[b]>>
    ELSE chunks[b]

\* The audio of the complete artifact of build b alone.
CompleteAudio(b) == [i \in DOMAIN SegmentsOf(b) |-> [by |-> b, text |-> SegmentsOf(b)[i]]]

\* Some turn of build b can run: an external call it waits for can report, or
\* a handler of its ffmpeg process can run.
CanStep(b) ==
    ENABLED (\/ SynthesisReturns(b) \/ SynthesisFails(b)
             \/ FfmpegEnds(b) \/ FfmpegFails(b)
             \/ MergeEndHandler(b) \/ MergeErrorHandler(b))

\* C14: a build that was started and has neither returned nor thrown still has
\* a turn to run, so that it ends once every external call has reported; no
\* build is left pending with nothing to wait for.
C14_NoBuildPendingForever ==
    \A b \in Builds :
        pc[b] \notin {"idle", "done", "failed"} => CanStep(b)

\* C15: once a build that called the merge has ended, by return or by error,
\* the concat list its merge wrote is not in the output directory.
C15_ConcatListRemoved ==
    \A b \in Builds :
        (pc[b] \in {"done", "failed"} /\ mergeLog[b] # <<>>) =>
            ~(concatList.exists /\ concatList.by = b)

\* Builds b1 and b2 returned, b1 before b2, for the same text and base name.
BuiltTwice(b1, b2) ==
    /\ b1 < b2
    /\ pc[b1] = "done"
    /\ pc[b2] = "done"
    /\ cleanFileName[b1] = cleanFileName[b2]
    /\ cleanedContent[b1] = cleanedContent[b2]

\* C16: two builds of the same text and base name, one after the other, return
\* the same size, and right after the second the file at <cleanFileName>.mp3
\* was written by the second build and holds exactly the audio of the second
\* build, one segment each, nothing of the first.
C16_SecondBuildReplacesFirst ==
    \A b1, b2 \in Builds :
        BuiltTwice(b1, b2) =>
            /\ result[b1].size = result[b2].size
            /\ result[b1].fileName = result[b2].fileName
            /\ LastEnded(b2) =>
                   /\ files[[base |-> cleanFileName[b2], part |-> 0]].by = b2
                   /\ files[[base |-> cleanFileName[b2], part |-> 0]].kind = "audio"
                   /\ files[[base |-> cleanFileName[b2], part |-> 0]].audio = CompleteAudio(b2)

\* The same three-segment text was built twice under one base name.
C16_Witness ==
    \E b1, b2 \in Builds :
        /\ BuiltTwice(b1, b2)
        /\ LastEnded(b2)
        /\ Len(chunks[b2]) = 3
        /\ result[b2].size > 0

\* C17: the error of a chunked build whose synthesis failed carries the index
\* of the failed segment: two such builds that threw the same error failed on
\* the same segment.
C17_ErrorCarriesSegmentIndex ==
    \A b1, b2 \in Builds :
        (/\ Chunked(b1) /\ Chunked(b2)
         /\ err[b1].prefix = TTSPrefix /\ err[b2].prefix = TTSPrefix
         /\ err[b1] = err[b2]) =>
            FailedCall(b1) = FailedCall(b2)

\* C18: the error of a failed build carries the prefix of the stage that
\* failed: the synthesis prefix when the merge was not yet called, the merge
\* prefix once it was.
C18_ErrorsCarryStagePrefix ==
    \A b \in Builds :
        pc[b] = "failed" =>
            err[b].prefix = IF mergeLog[b] = <<>> THEN TTSPrefix ELSE FFmpegPrefix

\* ----------------------------------------- claims on concurrent builds

\* Both builds have ended, with the same base name, and a complete file is at
\* <cleanFileName>.mp3.
BothEndedOnSameTarget(b1, b2) ==
    /\ b1 # b2
    /\ pc[b1] \in {"done", "failed"}
    /\ pc[b2] \in {"done", "failed"}
    /\ cleanFileName[b1] = cleanFileName[b2]
    /\ [base |-> cleanFileName[b1], part |-> 0] \in DOMAIN files
    /\ files[[base |-> cleanFileName[b1], part |-> 0]].kind = "audio"

C21_SameOptionsForEveryCall ==
    \A b \in Builds :
        \A i, j \in DOMAIN synthLog[b] :
            /\ synthLog[b][i].options = options[b]
            /\ synthLog[b][i].request = synthLog[b][j].request

\* A build with a voice and a speaking rate of its own has made the calls for
\* three segments, next to a build with other options.
C21_Witness ==
    \E b, c \in Builds :
        /\ Len(synthLog[b]) = 3
        /\ options[b].speakingRate = 3
        /\ synthLog[c] # <<>>
        /\ options[c] # options[b]

\* ----------------------------------------- claims on createCleanFileName

\* s has two hyphens in a row.
HasDoubleHyphen(s) == \E i \in 1..(Len(s) - 1) : s[i] = "-" /\ s[i + 1] = "-"

\* C22: the file name AudioGenerator.createCleanFileName returns is at most
\* MaxFileNameLen long, is made of a-z, 0-9 and '-' only, has no two hyphens
\* in a row and no hyphen at its start or its end.
C22_CleanFileNameWellFormed ==
    fn_pc = "done" =>
        LET name == fn_names[1]
        IN  /\ Len(name) <= MaxFileNameLen
            /\ \A i \in DOMAIN name : name[i] \in {"a", "b", "1", "-"}
            /\ ~HasDoubleHyphen(name)
            /\ name # <<>> => (name[1] # "-" /\ name[Len(name)] # "-")

\* C23: for every title the three copies of createCleanFileName return the
\* same file name.
C23_CopiesAgree ==
    fn_pc = "done" =>
        /\ fn_names[1] = fn_names[2]
        /\ fn_names[1] = fn_names[3]

\* A title with upper case, blanks and special characters, longer than the
\* limit, was cleaned by the three copies.
C23_Witness ==
    /\ fn_pc = "done"
    /\ Len(fn_title) > MaxFileNameLen
    /\ \E i, j, k \in DOMAIN fn_title :
           fn_title[i] = "B" /\ fn_title[j] = " " /\ fn_title[k] = "!"
    /\ Len(fn_names[3]) = MaxFileNameLen

\* ----------------------------------------- claims on document processing

\* The call of request j has ended with a failure result.
EndedInFailure(j) == dp_pc[j] \in {"settled", "handled", "rejected"} /\ ~dp_result[j].success


\* C24: processDocument never rejects, and a call that failed at any step is
\* resolved with success = false, an error message, totalChapters = 0 and no
\* audio files.
C24_ProcessDocumentNeverRejects ==
    \A j \in Requests :
        /\ dp_result[j].settled # "rejected"
        /\ dp_pc[j] # "rejected"
        /\ EndedInFailure(j) =>
               /\ dp_result[j].settled = "resolved"
               /\ dp_result[j].error # ""
               /\ dp_result[j].totalChapters = 0
               /\ dp_result[j].audioFiles = <<>>

\* The synthesis of the second chapter failed after the first was generated.
C24_Witness ==
    \E j \in Requests :
        /\ EndedInFailure(j)
        /\ dp_result[j].error = "TTS generation failed"
        /\ Len(dp_audioFiles[j]) = 1
        /\ dp_chapters[j] = 2

\* The reports of a successful run over n chapters.
ExpectedProgress(n) ==
    << [stage |-> "fetching", current |-> 1, total |-> 5],
       [stage |-> "fetching", current |-> 2, total |-> 5],
       [stage |-> "detecting", current |-> 3, total |-> 5] >>
    \o [i \in 1..n |-> [stage |-> "generating", current |-> i, total |-> n]]
    \o << [stage |-> "complete", current |-> n, total |-> n] >>

\* C25: a successful run over N chapters has invoked the callback N+4 times:
\* fetching 1/5, fetching 2/5, detecting 3/5, generating i/N for i = 1..N in
\* order, complete N/N; without a callback nothing is ever invoked, and such
\* runs succeed as well.
C25_ProgressSequence ==
    \A j \in Requests :
        /\ dp_input[j].onProgress = "none" => dp_progress[j] = <<>>
        /\ (dp_result[j].success /\ dp_input[j].onProgress # "none") =>
               /\ dp_progress[j] = ExpectedProgress(dp_result[j].totalChapters)
               /\ Len(dp_progress[j]) = dp_result[j].totalChapters + 4

\* A run over two chapters with a callback has succeeded, next to a run
\* without callback that has succeeded.
C25_Witness ==
    \E j, k \in Requests :
        /\ dp_result[j].success
        /\ dp_input[j].onProgress # "none"
        /\ dp_result[j].totalChapters = 2
        /\ dp_result[k].success
        /\ dp_input[k].onProgress = "none"


\* C29: every audio file and the metadata a processDocument call wrote are
\* under the directory of its own document, <base>/<documentId>, also when
\* two calls for different documents interleave on the shared processor.
C29_WritesUnderOwnDirectory ==
    \A j \in Requests :
        \A p \in dp_wrote[j] : p.dir = dp_input[j].documentId

\* The values job.status may take after `from`, given how the call ended.
StatusMayBecome(j, from, to) ==
    \/ from = "" /\ to = "processing"
    \/ /\ from = "processing"
       /\ dp_pc[j] = "settled"
       /\ to = (IF dp_result[j].success THEN "completed" ELSE "failed")

\* C30: a job starts as 'processing' and its status changes once, when the
\* call has ended: to 'completed' if the result has success = true, else to
\* 'failed'; no progress report and no later turn changes it again; and the
\* job of a call that has ended becomes terminal.
C30_JobStatusLifecycle ==
    /\ [][\A j \in Requests :
              job'[j].status # job[j].status =>
                  StatusMayBecome(j, job[j].status, job'[j].status)]_vars
    /\ [](\A j \in Requests :
              /\ Len(statusLog[j]) <= 2
              /\ job[j].status = "completed" => dp_result[j].success
              /\ job[j].status = "failed" => ~dp_result[j].success)
    /\ \A j \in Requests :
           (dp_pc[j] = "settled" /\ job[j].status = "processing")
               ~> (job[j].status \in {"completed", "failed"})

\* One job is completed after progress reports, another has failed.
C30_Witness ==
    \E j, k \in Requests :
        /\ job[j].status = "completed"
        /\ job[j].currentStage = "complete"
        /\ job[k].status = "failed"
        /\ statusLog[k] = <<"processing", "failed">>


\* ---------------------------------- claims on a failing build's effects

\* Build c returned an artifact at <cleanFileName>.mp3 and build b, the next
\* build on that base name, ended in failure; no build has started since.
FailedAfterComplete(c, b) ==
    /\ c < b
    /\ pc[c] = "done"
    /\ pc[b] = "failed"
    /\ LastEnded(b)
    /\ cleanFileName[c] = cleanFileName[b]
    /\ \A d \in Builds : (c < d /\ d < b) => cleanFileName[d] # cleanFileName[c]

\* C28: a build that ends in failure leaves the complete artifact an earlier
\* build put at <cleanFileName>.mp3 as it was: still written by that build,
\* still holding all of its audio, neither truncated nor deleted.
C28_FailedBuildKeepsArtifact ==
    \A c, b \in Builds :
        FailedAfterComplete(c, b) =>
            /\ Exists(FinalName(cleanFileName[c]))
            /\ files[FinalName(cleanFileName[c])] = AudioFile(c, CompleteAudio(c))


\* ------------------------------------------- one build of any cleaned text

\* cleanContentForTTS ends with .replace(/\n{3,}/g, '\n\n').trim(): its result
\* is trimmed and has no run of three newlines.
NoTripleNewline(t) ==
    \A i \in 1..(Len(t) - 2) : ~(t[i] = "\n" /\ t[i + 1] = "\n" /\ t[i + 2] = "\n")

\* The cleaned texts of length at most MaxTextLen.
CleanedTexts ==
    {t \in TextsUpTo(MaxTextLen) : IsCleanedText(t) /\ NoTripleNewline(t)}

\* The one call of generateChapterAudioWithChunking of this specification.
TheBuild == 1

\* generateChapterAudioWithChunking called once, on any cleaned text.
BuildOfAnyText ==
    /\ pc[TheBuild] = "idle"
    /\ \E bn \in BaseNames, t \in CleanedTexts : BeginBuildOn(TheBuild, bn, t)

AnyTextNext ==
    \/ BuildOfAnyText
    \/ SynthesisReturns(TheBuild)
    \/ SynthesisFails(TheBuild)
    \/ FfmpegEnds(TheBuild)
    \/ FfmpegFails(TheBuild)
    \/ MergeEndHandler(TheBuild)
    \/ MergeErrorHandler(TheBuild)

AnyTextSpec == Init /\ [][AnyTextNext]_vars

\* t is longer than the ceiling, one paragraph (no run of two newlines), and
\* has no sentence-ending punctuation.
IsUnbrokenLongText(t) ==
    /\ Len(t) > MAX_CHARS_PER_REQUEST
    /\ Len(SplitParagraphs(t)) = 1
    /\ \A i \in DOMAIN t : t[i] \notin SentenceEnd

\* C27: for a text longer than the ceiling that is one paragraph without
\* sentence-ending punctuation the segmenter returns one segment, the whole
\* trimmed text, and the build takes the Chunked path with one segment: its
\* only synthesis call is for that segment, to part file 1, and its only merge
\* call is on that one part.
C27_UnbrokenTextIsOneSegment ==
    \A b \in Builds :
        (pc[b] # "idle" /\ IsUnbrokenLongText(cleanedContent[b])) =>
            /\ chunks[b] = <<Trim(cleanedContent[b])>>
            /\ Len(synthLog[b]) = 1
            /\ synthLog[b][1].text = Trim(cleanedContent[b])
            /\ synthLog[b][1].file = PartName(cleanFileName[b], 1)
            /\ Len(mergeLog[b]) <= 1
            /\ \A i \in DOMAIN mergeLog[b] :
                   mergeLog[b][i].parts = <<PartName(cleanFileName[b], 1)>>
            /\ pc[b] = "done" =>
                   /\ Len(mergeLog[b]) = 1
                   /\ files[FinalName(cleanFileName[b])].audio
                          = <<Synthesized(b, cleanedContent[b])>>

\* A build of an unbroken text with blanks and a line break in it, longer than
\* the ceiling, has returned its artifact.
C27_Witness ==
    /\ pc[TheBuild] = "done"
    /\ IsUnbrokenLongText(cleanedContent[TheBuild])
    /\ \E i, j \in DOMAIN cleanedContent[TheBuild] :
           cleanedContent[TheBuild][i] = " " /\ cleanedContent[TheBuild][j] = "\n"
    /\ Len(mergeLog[TheBuild]) = 1


\* --------------------------------------- claims on the segment boundaries

\* The positions of the characters of t that are not whitespace, in order.
NonBlankPositions(t) ==
    SelectSeq([i \in 1..Len(t) |-> i], LAMBDA i : ~IsBlank(t[i]))

\* The boundary after segment j, as the number of non-blank characters of the
\* text that are in segments 1..j.
BoundaryAfter(cs, j) == Len(StripWhitespace(Flatten(SubSeq(cs, 1, j))))

\* The stretch of t between its k-th and its (k+1)-th non-blank character:
\* where a boundary after k non-blank characters lies in the source text.
GapStart(t, k) == IF k = 0 THEN 1 ELSE NonBlankPositions(t)[k] + 1

GapEnd(t, k) ==
    IF k >= Len(NonBlankPositions(t)) THEN Len(t) ELSE NonBlankPositions(t)[k + 1] - 1

\* Position i of t is in a run of two or more newlines.
InParagraphBreak(t, i) ==
    /\ t[i] = "\n"
    /\ \/ i > 1 /\ t[i - 1] = "\n"
       \/ i < Len(t) /\ t[i + 1] = "\n"

\* The boundary after k non-blank characters lies on a paragraph break.
AtParagraphBreak(t, k) ==
    \E i \in GapStart(t, k)..GapEnd(t, k) : InParagraphBreak(t, i)

\* The length of the paragraph of t that holds position i.
ParagraphLengthAt(t, i) ==
    Cardinality({p \in 1..Len(t) :
        \A q \in (IF p <= i THEN p..i ELSE i..p) : ~InParagraphBreak(t, q)})

\* The boundary after k non-blank characters lies on whitespace that follows
\* '.', '!' or '?', inside a paragraph longer than the ceiling.
AtSentenceBreak(t, k) ==
    /\ k >= 1
    /\ k <= Len(NonBlankPositions(t))
    /\ t[NonBlankPositions(t)[k]] \in SentenceEnd
    /\ GapStart(t, k) <= GapEnd(t, k)
    /\ ParagraphLengthAt(t, NonBlankPositions(t)[k]) > MAX_CHARS_PER_REQUEST

\* C26: every boundary between two consecutive segments lies, in the source
\* text, on a run of two or more newlines or on whitespace that follows '.',
\* '!' or '?'; the latter only inside a paragraph longer than the ceiling, so
\* that no boundary is inside a sentence and a paragraph that fits the ceiling
\* is never divided.
C26_BoundariesAtBreaks ==
    seg_pc = "done" =>
        \A j \in 1..(Len(seg_chunks) - 1) :
            \/ AtParagraphBreak(seg_text, BoundaryAfter(seg_chunks, j))
            \/ AtSentenceBreak(seg_text, BoundaryAfter(seg_chunks, j))

\* A text cut once between two sentences of an oversized paragraph and once
\* at a paragraph break.
C26_Witness ==
    /\ seg_pc = "done"
    /\ \E j \in 1..(Len(seg_chunks) - 1) :
           /\ AtSentenceBreak(seg_text, BoundaryAfter(seg_chunks, j))
           /\ ~AtParagraphBreak(seg_text, BoundaryAfter(seg_chunks, j))
    /\ \E j \in 1..(Len(seg_chunks) - 1) :
           /\ AtParagraphBreak(seg_text, BoundaryAfter(seg_chunks, j))
           /\ ~AtSentenceBreak(seg_text, BoundaryAfter(seg_chunks, j))

====
